---------------------------- MODULE Spec2Model ----------------------------
(***************************************************************************)
(* Model of the multi-task validator                                       *)
(*   src/ultralytics/models/yolo/multitask/val.py  (MultiTaskValidator)    *)
(* and of the experiment-tracker callbacks                                 *)
(*   src/ultralytics/yolo/utils/callbacks/wandb.py                         *)
(*                                                                         *)
(* Geometry is exact integer arithmetic on a one-row pixel strip: a box is *)
(* [x1, y1, x2, y2] with y1 = 0 and y2 = 1, a mask is the set of the       *)
(* pixels (1-based columns) that are set, IoU values are in millionths.    *)
(* An optional argument is None or Some(v).                                *)
(***************************************************************************)
EXTENDS Integers, Sequences, FiniteSets, TLC

VARIABLES
    args,       \* validator: self.args (save_json, overlap_mask, single_cls) and self.is_coco
    seen,       \* validator: self.seen
    stats,      \* validator: self.stats, the list of per-image tuples
    jdict,      \* validator: self.jdict, the list of COCO result dicts
    last,       \* validator: the inputs of the most recent update_metrics iteration
    pc,         \* validator: "running", "raised" (an exception left a method), "evaluated"
    evalIn,     \* eval_json: the stats mapping passed by the caller (None before the call)
    evalOut,    \* eval_json: the mapping returned (None before the call or if it raised)
    evalRuns,   \* eval_json: the COCOeval runs whose evaluate() was called, in order
    warned,     \* eval_json: LOGGER.warning was called
    evalFail,   \* eval_json: the step of the try block that failed in the call ("none" if none)
    sdk,        \* tracker module: outcome of "import wandb" at module load
    table,      \* tracker module: the exported callbacks table (None if the module failed to load)
    run,        \* tracker SDK: wandb.run (None or the active run)
    trainer,    \* trainer: args.project, epoch, whether trainer.best exists, train_batch*.jpg files
    inits,      \* tracker SDK: number of wandb.init calls executed since a run was last finished
    calls,      \* tracker SDK: number of SDK calls the hooks have made (init, log, Image, Artifact, ...)
    hooks,      \* trainer: number of callbacks of this module the trainer has invoked
    lastHook,   \* trainer: the callback invoked most recently ("none" before the first)
    tpc         \* trainer: "training" or "crashed" (an exception left the module or a hook)

vvars == <<args, seen, stats, jdict, last, pc, evalIn, evalOut, evalRuns, warned, evalFail>>
tvars == <<sdk, table, run, trainer, inits, calls, hooks, lastHook, tpc>>
vars == <<vvars, tvars>>

\* Python's None, and an optional argument that is given
None == [some |-> FALSE]
Some(v) == [some |-> TRUE, val |-> v]

---------------------------------------------------------------------------
(* Bounds of the model *)

\* images processed in one behaviour of a validator specification
MaxSeen == 2
\* hook invocations of one trainer
MaxHooks == 4
\* epochs of one trainer (trainer.epoch runs from 0)
MaxEpoch == 2

---------------------------------------------------------------------------
(* Tensors and helpers *)

\* number of IoU levels of a correctness matrix (iouv = 0.50:0.05:0.95)
NIOU == 10

\* the t-th IoU threshold, in millionths
IoUV(t) == 450000 + 50000 * t

Max2(a, b) == IF a >= b THEN a ELSE b
Min2(a, b) == IF a <= b THEN a ELSE b

\* torch.zeros(n, NIOU, dtype=bool)
ZeroCorrect(n) == [p \in 1..n |-> [t \in 1..NIOU |-> FALSE]]

\* can tensors of 2-d shapes a and b be broadcast together
Broadcastable(a, b) == \A d \in 1..2 : a[d] = b[d] \/ a[d] = 1 \/ b[d] = 1

\* the shape of the broadcast of 2-d shapes a and b
BroadcastShape(a, b) == [d \in 1..2 |-> IF a[d] = 1 THEN b[d] ELSE a[d]]

\* an all-zero tensor of 2-d shape s, as a sequence of rows
ZerosOfShape(s) == [r \in 1..s[1] |-> [c \in 1..s[2] |-> 0]]

\* the pixel columns of the model-space image
Pixels == {1, 2, 3}

BoxArea(b) == (b.x2 - b.x1) * (b.y2 - b.y1)

\* box_iou(a, b) = inter / (area_a + area_b - inter + eps), in millionths, rounded down
BoxIoU(a, b) ==
    LET iw == Max2(0, Min2(a.x2, b.x2) - Max2(a.x1, b.x1))
        ih == Max2(0, Min2(a.y2, b.y2) - Max2(a.y1, b.y1))
        inter == iw * ih
        union == BoxArea(a) + BoxArea(b) - inter
    IN  IF inter = 0 THEN 0 ELSE (1000000 * inter - 1) \div union

\* mask_iou(a, b) = inter / (union + eps) on flattened masks, in millionths, rounded down
MaskIoU(a, b) ==
    LET inter == Cardinality(a \cap b)
        union == Cardinality(a \cup b)
    IN  IF inter = 0 THEN 0 ELSE (1000000 * inter - 1) \div union

\* -ln(IoUV(t)) in ten-thousandths
NegLnIoUV == <<6931, 5978, 5108, 4308, 3567, 2877, 2231, 1625, 1054, 513>>

\* kpt_iou for one visible keypoint and sigma = 1 (kpt_shape [1, 3]):
\* exp(-d2 / (2 sigma)^2 / area / 2) with area = 0.53 x box area, reported as the
\* highest IoU threshold it reaches (0 when it reaches none)
KptIoU(gt, pr, boxArea) ==
    LET d2 == (gt.x - pr.x) * (gt.x - pr.x) + (gt.y - pr.y) * (gt.y - pr.y)
        reached == {t \in 1..NIOU : d2 * 100 * 10000 <= 424 * boxArea * NegLnIoUV[t]}
    IN  IF reached = {} THEN 0
        ELSE IoUV(CHOOSE t \in reached : \A u \in reached : u <= t)

\* ops.scale_boxes with ratio_pad = ((1/r, 1/r), (0, 0)): model space to native space
ScaleBoxes(b, r) == [x1 |-> b.x1 * r, y1 |-> b.y1, x2 |-> b.x2 * r, y2 |-> b.y2]

\* ops.scale_coords with the same ratio_pad
ScaleCoords(k, r) == [x |-> k.x * r, y |-> k.y]

\* ops.scale_image with the same ratio_pad: every mask pixel becomes r native pixels
ScaleImage(m, r) == {q \in 1..(Cardinality(Pixels) * r) : ((q - 1) \div r) + 1 \in m}


---------------------------------------------------------------------------
(* Matching *)

\* BaseValidator.match_predictions: per threshold, the pairs of equal class with
\* iou >= threshold, sorted by descending iou, reduced to one label per prediction
\* (np.unique on the prediction column) and then to one prediction per label
\* (np.unique on the label column, which keeps the lowest prediction index)
MatchPredictions(pcls, tcls, iou) ==
    LET P == DOMAIN pcls
        L == DOMAIN tcls
        Cand(t) == {m \in L \X P : tcls[m[1]] = pcls[m[2]] /\ iou[m[1]][m[2]] >= IoUV(t)}
        Better(t, p, l, k) == iou[l][p] > iou[k][p] \/ (iou[l][p] = iou[k][p] /\ l >= k)
        HasLabel(t, p) == \E l \in L : <<l, p>> \in Cand(t)
        LabelOf(t, p) == CHOOSE l \in L : /\ <<l, p>> \in Cand(t)
                                          /\ \A k \in L : <<k, p>> \in Cand(t) => Better(t, p, l, k)
        Wins(t, p) == /\ HasLabel(t, p)
                      /\ \A q \in P : (HasLabel(t, q) /\ LabelOf(t, q) = LabelOf(t, p)) => p <= q
    IN  [p \in P |-> [t \in 1..NIOU |-> Wins(t, p)]]

\* box_iou(labels[:, 1:], detections[:, :4])
BoxIoUMatrix(labels, detections) ==
    [l \in DOMAIN labels |-> [p \in DOMAIN detections |-> BoxIoU(labels[l].box, detections[p].box)]]

\* mask_iou(gt_masks, pred_masks)
MaskIoUMatrix(gt_masks, pred_masks) ==
    [l \in DOMAIN gt_masks |-> [p \in DOMAIN pred_masks |-> MaskIoU(gt_masks[l], pred_masks[p])]]

\* kpt_iou(gt_kpts, pred_kpts, sigma, area) with area = 0.53 x label box area
KptIoUMatrix(labels, gt_kpts, pred_kpts) ==
    [l \in DOMAIN gt_kpts |-> [p \in DOMAIN pred_kpts |->
        KptIoU(gt_kpts[l], pred_kpts[p], BoxArea(labels[l].box))]]

\* MultiTaskValidator._process_batch(detections, labels, pred_kpts, pred_masks,
\*                                   gt_masks, gt_kpts, overlap, masks):
\* Some(correct), or None when the call raises.
\* The keypoint iou of the first "if" is overwritten by the if/else that follows it;
\* the mask branch calls the local name mask_iou before it is bound.
ProcessBatch(detections, labels, pred_kpts, pred_masks, gt_masks, gt_kpts, overlap, masks) ==
    IF masks /\ pred_kpts.some /\ gt_kpts.some
    THEN None
    ELSE Some(MatchPredictions([p \in DOMAIN detections |-> detections[p].cls],
                          [l \in DOMAIN labels |-> labels[l].cls],
                          BoxIoUMatrix(labels, detections)))

---------------------------------------------------------------------------
(* COCO JSON export *)

\* characters of a file stem: decimal digits, a letter, and SUPERSCRIPT TWO, which
\* str.isnumeric() accepts and int() rejects
Digits == {"0", "7"}
OtherNumeric == {"sup2"}
DigitVal == ("0" :> 0) @@ ("7" :> 7)

\* str.isnumeric()
IsNumeric(stem) == Len(stem) > 0 /\ \A i \in 1..Len(stem) : stem[i] \in Digits \cup OtherNumeric

RECURSIVE DecimalValue(_)
DecimalValue(stem) ==
    IF stem = <<>> THEN 0
    ELSE 10 * DecimalValue(SubSeq(stem, 1, Len(stem) - 1)) + DigitVal[stem[Len(stem)]]

\* int(stem), for a stem without sign, blanks or underscores, raises ValueError
\* unless every character is a decimal digit
IntRaises(stem) == ~(Len(stem) > 0 /\ \A i \in 1..Len(stem) : stem[i] \in Digits)

\* image_id = int(stem) if stem.isnumeric() else stem (None when int raises)
ImageId(stem) ==
    IF IsNumeric(stem)
    THEN IF IntRaises(stem) THEN None ELSE Some([int |-> DecimalValue(stem)])
    ELSE Some([str |-> stem])

\* self.class_map: coco80_to_coco91_class() on COCO, list(range(1000)) otherwise
ClassMap(isCoco, c) == IF isCoco THEN c + 1 ELSE c

RECURSIVE RleFrom(_, _, _, _, _)
RleFrom(m, w, q, cur, n) ==
    IF q > w THEN <<n>>
    ELSE IF (q \in m) = cur THEN RleFrom(m, w, q + 1, cur, n + 1)
    ELSE <<n>> \o RleFrom(m, w, q + 1, ~cur, 1)

\* single_encode: pycocotools run-length encoding of one mask of width w
SingleEncode(m, w) == [size |-> <<1, w>>, counts |-> RleFrom(m, w, 1, FALSE, 0)]

\* xyxy2xywh followed by "xy center to top-left corner"
TopLeftXYWH(b) == <<b.x1, b.y1, b.x2 - b.x1, b.y2 - b.y1>>

\* MultiTaskValidator.pred_to_json: Some(the new jdict), or None when it raises
PredToJson(jd, isCoco, predn, stem, pred_masks, w) ==
    LET image_id == ImageId(stem)
    IN  IF ~image_id.some THEN None
        ELSE Some(jd \o [i \in DOMAIN predn |->
                 [image_id |-> image_id.val,
                  category_id |-> ClassMap(isCoco, predn[i].cls),
                  bbox |-> TopLeftXYWH(predn[i].box),
                  keypoints |-> predn[i].coef,
                  score |-> predn[i].conf,
                  segmentation |-> SingleEncode(pred_masks[i], w)]])


---------------------------------------------------------------------------
(* update_metrics *)

\* the pixel columns a box covers
BoxPixels(b) == {q \in Pixels : b.x1 < q /\ q <= b.x2}

\* lines 145-147: pred[:, 5] = 0 under single_cls
PredCls(a, pr) == IF a.single_cls THEN 0 ELSE pr.cls

\* line 142: pred_masks = self.process(proto, ...), one mask per segmentation prediction
PredMasks(img) == [p \in DOMAIN img.segs |-> img.segs[p].mask]

\* lines 149-153: predn_seg, the segmentation predictions with native-space boxes
PrednSeg(a, img) ==
    [p \in DOMAIN img.segs |->
        [box |-> ScaleBoxes(img.segs[p].box, img.ratio), conf |-> img.segs[p].conf,
         cls |-> PredCls(a, img.segs[p]), coef |-> img.segs[p].coef]]

\* line 150 and the slice of line 177: predn_kpt[:, :6], whose boxes stay in model space
PrednKpt(a, img) ==
    [p \in DOMAIN img.poses |->
        [box |-> img.poses[p].box, conf |-> img.poses[p].conf, cls |-> PredCls(a, img.poses[p])]]

\* lines 154-155: pred_kpts, the predicted keypoints in native space
PredKpts(img) == [p \in DOMAIN img.poses |-> ScaleCoords(img.poses[p].kpt, img.ratio)]

\* lines 160-168: labelsn = (cls, native-space target box)
LabelsN(img) ==
    [l \in DOMAIN img.labels |->
        [cls |-> img.labels[l].cls, box |-> ScaleBoxes(img.labels[l].box, img.ratio)]]

\* lines 164-167: tkpts, the ground-truth keypoints in native space
TKpts(img) == [l \in DOMAIN img.labels |-> ScaleCoords(img.labels[l].kpt, img.ratio)]

\* lines 140-141: gt_masks, as one binary mask per label (under overlap_mask the batch
\* holds one index image per image, which lines 224-228 would decode into these masks)
GtMasks(img) == [l \in DOMAIN img.labels |-> img.labels[l].mask]

\* One iteration of the loop of MultiTaskValidator.update_metrics, for image img
\* (self.seen += 1 is in the action). a = self.args, st = self.stats, jd = self.jdict,
\* openOk = whether the debug log of line 116 could be opened for appending.
\* Returns the new stats and jdict, whether an exception left the method, and
\* whether pred_to_json was called.
UpdateImage(a, st, jd, img, openOk) ==
    LET nl == Len(img.labels)
        nprs == Len(img.segs)
        nprk == Len(img.poses)
        r == img.ratio
        tcls == [l \in 1..nl |-> img.labels[l].cls]
        Raised == [stats |-> st, jdict |-> jd, raised |-> TRUE, json |-> FALSE]
        pred_masks == PredMasks(img)
        predn_seg == PrednSeg(a, img)
        predn_kpt == PrednKpt(a, img)
        pred_kpts == PredKpts(img)
        labelsn == LabelsN(img)
        tkpts == TKpts(img)
        gt_masks == GtMasks(img)
        \* lines 169-177
        correct_bboxes == IF nl > 0
                          THEN ProcessBatch(predn_seg, labelsn, None, None, None, None, FALSE, FALSE)
                          ELSE Some(ZeroCorrect(nprs))
        correct_masks == IF nl > 0
                         THEN ProcessBatch(predn_seg, labelsn, Some(pred_masks), Some(gt_masks),
                                           None, None, a.overlap_mask, TRUE)
                         ELSE Some(ZeroCorrect(nprs))
        correct_kpts == IF nl > 0
                        THEN ProcessBatch(predn_kpt, labelsn, Some(pred_kpts), Some(tkpts),
                                          None, None, FALSE, FALSE)
                        ELSE Some(ZeroCorrect(nprk))
        \* line 182
        entry == <<correct_bboxes.val, correct_masks.val, correct_kpts.val,
                   [p \in 1..nprs |-> predn_seg[p].conf],
                   [p \in 1..nprs |-> predn_seg[p].cls],
                   tcls>>
        \* lines 190-193
        native_masks == [p \in 1..nprs |-> ScaleImage(pred_masks[p], r)]
        json == PredToJson(jd, a.is_coco, predn_seg, img.stem, native_masks, Cardinality(Pixels) * r)
    IN  IF ~openOk THEN Raised
        ELSE IF nprs = 0
        THEN IF nl > 0
             THEN \* line 133: correct_kpts * torch.zeros((2, 0)) is a product, not an unpacking
                  IF Broadcastable(<<nprk, NIOU>>, <<2, 0>>)
                  THEN [stats |-> Append(st, <<ZeroCorrect(nprs), ZeroCorrect(nprs),
                                               ZerosOfShape(BroadcastShape(<<nprk, NIOU>>, <<2, 0>>)),
                                               tcls>>),
                        jdict |-> jd, raised |-> FALSE, json |-> FALSE]
                  ELSE Raised
             ELSE [stats |-> st, jdict |-> jd, raised |-> FALSE, json |-> FALSE]
        \* line 154: view(nprk, nk, -1) of a tensor without elements is ambiguous
        ELSE IF nprk = 0 THEN Raised
        ELSE IF ~(correct_bboxes.some /\ correct_masks.some /\ correct_kpts.some) THEN Raised
        ELSE IF ~a.save_json
        THEN [stats |-> Append(st, entry), jdict |-> jd, raised |-> FALSE, json |-> FALSE]
        ELSE IF ~json.some
        THEN [stats |-> Append(st, entry), jdict |-> jd, raised |-> TRUE, json |-> TRUE]
        ELSE [stats |-> Append(st, entry), jdict |-> json.val, raised |-> FALSE, json |-> TRUE]

\* update_metrics on a batch of one image (a longer batch is the same iterations in
\* sequence; an exception ends the validation)
UpdateMetrics(img, openOk) ==
    /\ pc = "running"
    /\ seen < MaxSeen
    /\ \E res \in {UpdateImage(args, stats, jdict, img, openOk)} :
           /\ seen' = seen + 1
           /\ stats' = res.stats
           /\ jdict' = res.jdict
           /\ pc' = IF res.raised THEN "raised" ELSE "running"
           /\ last' = Some([img |-> img, openOk |-> openOk, json |-> res.json])
    /\ UNCHANGED <<args, evalIn, evalOut, evalRuns, warned, evalFail, tvars>>

---------------------------------------------------------------------------
(* eval_json *)

\* self.metrics.keys of MultiTaskMetrics: box, mask and pose blocks of four
MetricKeys == <<"B_P", "B_R", "B_mAP50", "B_mAP50-95",
                "M_P", "M_R", "M_mAP50", "M_mAP50-95",
                "P_P", "P_R", "P_mAP50", "P_mAP50-95">>

KeySet == {MetricKeys[k] : k \in DOMAIN MetricKeys}

\* the three COCOeval runs, in the order of the list of line 320
EvalOrder == <<"bbox", "segm", "keypoints">>

\* eval.stats[:2] of a run that succeeds: (mAP50-95, mAP50)
EvalStats == [bbox |-> <<31, 51>>, segm |-> <<32, 52>>, keypoints |-> <<33, 53>>]

\* where the try block can fail, and an exception such a failure raises
FailPoints == {"none", "requirements", "anno_file", "pred_file", "loadRes",
               "bbox", "segm", "keypoints"}
ExceptionOf == [requirements |-> "ModuleNotFoundError", anno_file |-> "AssertionError",
                pred_file |-> "AssertionError", loadRes |-> "KeyError",
                bbox |-> "IndexError", segm |-> "TypeError", keypoints |-> "ValueError"]

\* mutant of ExceptCatches: only the file assertions are caught
ExceptCatchesAssertionOnly(exc) == exc = "AssertionError"

\* "except Exception": every exception class above derives from Exception
ExceptCatches(exc) == exc \in {"ModuleNotFoundError", "AssertionError", "KeyError",
                               "IndexError", "TypeError", "ValueError"}

\* mutant of EvalGuard: the dataset test is dropped
EvalGuardNoCoco(a, jd) == a.save_json /\ Len(jd) > 0

\* the condition of line 307
EvalGuard(a, jd) == a.save_json /\ a.is_coco /\ Len(jd) > 0

\* stats after the i-th run succeeded: keys[idx + 1], keys[idx] = eval.stats[:2], idx = i * 4 + 2
RECURSIVE StatsAfter(_, _)
StatsAfter(given, n) ==
    IF n = 0 THEN given
    ELSE LET prev == StatsAfter(given, n - 1)
             i == n - 1
             idx == i * 4 + 2
             es == EvalStats[EvalOrder[n]]
         IN  [prev EXCEPT ![MetricKeys[idx + 2]] = es[1], ![MetricKeys[idx + 1]] = es[2]]

\* position of a failing run in EvalOrder (0 for a failure before the loop)
RunIndex(fail) == IF fail = "bbox" THEN 1 ELSE IF fail = "segm" THEN 2
                  ELSE IF fail = "keypoints" THEN 3 ELSE 0

\* MultiTaskValidator.eval_json(stats) when the try block fails at `fail`:
\* out is Some(the mapping returned), or None when the exception leaves the method
EvalJsonResult(a, jd, given, fail) ==
    IF ~EvalGuard(a, jd)
    THEN [out |-> Some(given), runs |-> <<>>, warned |-> FALSE]
    ELSE IF fail = "none"
    THEN [out |-> Some(StatsAfter(given, 3)), runs |-> EvalOrder, warned |-> FALSE]
    ELSE LET k == RunIndex(fail)
             done == IF k = 0 THEN 0 ELSE k - 1
         IN  IF ExceptCatches(ExceptionOf[fail])
             THEN [out |-> Some(StatsAfter(given, done)), runs |-> SubSeq(EvalOrder, 1, k),
                   warned |-> TRUE]
             ELSE [out |-> None, runs |-> SubSeq(EvalOrder, 1, k), warned |-> FALSE]

EvalJson(given, fail) ==
    /\ pc = "running"
    /\ \E res \in {EvalJsonResult(args, jdict, given, fail)} :
           /\ evalIn' = Some(given)
           /\ evalOut' = res.out
           /\ evalRuns' = res.runs
           /\ warned' = res.warned
           /\ evalFail' = IF EvalGuard(args, jdict) THEN fail ELSE "none"
           /\ pc' = IF res.out.some THEN "evaluated" ELSE "raised"
    /\ UNCHANGED <<args, seen, stats, jdict, last, tvars>>

---------------------------------------------------------------------------
(* Inputs of the validator *)

B12 == [x1 |-> 0, y1 |-> 0, x2 |-> 2, y2 |-> 1]
B23 == [x1 |-> 1, y1 |-> 0, x2 |-> 3, y2 |-> 1]
B13 == [x1 |-> 0, y1 |-> 0, x2 |-> 3, y2 |-> 1]

\* ground truth: the object fills the first pixel of its box, its keypoint is at x = 0
MatchLabels == {[cls |-> c, box |-> B12, mask |-> {1}, kpt |-> [x |-> 0, y |-> 0]] : c \in {0, 1}}

\* segmentation predictions: the mask is the whole box or its last pixel
MatchSegs == {[box |-> B12, conf |-> 9, cls |-> c, coef |-> 1, mask |-> {2}] : c \in {0, 1}} \cup
             {[box |-> b, conf |-> 9, cls |-> c, coef |-> 1, mask |-> BoxPixels(b)] :
                c \in {0, 1}, b \in {B12, B13}}

MatchPoses == {[box |-> B12, conf |-> 8, cls |-> c, kpt |-> [x |-> k, y |-> 0]] :
                 c \in {0, 1}, k \in {0, 3}}

\* two predictions of one object, the better box second
SegPair == <<[box |-> B13, conf |-> 9, cls |-> 0, coef |-> 1, mask |-> {2}],
             [box |-> B12, conf |-> 7, cls |-> 0, coef |-> 2, mask |-> {1, 2}]>>

Stem7 == <<"0", "7">>

MatchImages ==
    {[labels |-> ls, segs |-> ss, poses |-> ps, ratio |-> r, stem |-> Stem7] :
        ls \in {<<>>} \cup {<<l>> : l \in MatchLabels},
        ss \in {<<>>, SegPair} \cup {<<s>> : s \in MatchSegs},
        ps \in {<<>>} \cup {<<k>> : k \in MatchPoses},
        r \in {1, 2}}

JsonLabel == [cls |-> 0, box |-> B12, mask |-> {1}, kpt |-> [x |-> 0, y |-> 0]]
JsonPose == [box |-> B12, conf |-> 8, cls |-> 0, kpt |-> [x |-> 0, y |-> 0]]
JsonSegA == [box |-> B12, conf |-> 9, cls |-> 0, coef |-> 1, mask |-> {2}]
JsonSegB == [box |-> B23, conf |-> 7, cls |-> 1, coef |-> 2, mask |-> {2, 3}]

Stems == {Stem7, <<"a", "7">>, <<"sup2">>}

JsonImages ==
    {[labels |-> <<JsonLabel>>, segs |-> ss, poses |-> ps, ratio |-> 2, stem |-> s] :
        ss \in {<<>>, <<JsonSegA>>, <<JsonSegB>>, <<JsonSegB, JsonSegA>>},
        ps \in {<<>>, <<JsonPose>>},
        s \in Stems}

\* the stats mapping the caller passes to eval_json
GivenStats == {[k \in KeySet |-> v] : v \in {0, 1}}

---------------------------------------------------------------------------
(* Specifications of the validator *)

TrackerIdle ==
    /\ sdk = "ok" /\ table = Some({}) /\ run = None
    /\ trainer = [project |-> "runs/train", epoch |-> 0, best |-> FALSE, batchJpgs |-> 0]
    /\ inits = 0 /\ calls = 0 /\ hooks = 0 /\ lastHook = "none" /\ tpc = "training"

ValidatorStart ==
    /\ seen = 0 /\ stats = <<>> /\ jdict = <<>> /\ last = None /\ pc = "running"
    /\ evalIn = None /\ evalOut = None /\ evalRuns = <<>> /\ warned = FALSE /\ evalFail = "none"

\* matching: save_json is off, the images vary in labels, predictions and scale
InitMatch ==
    /\ args \in [save_json : {FALSE}, is_coco : {FALSE}, overlap_mask : BOOLEAN, single_cls : BOOLEAN]
    /\ ValidatorStart
    /\ TrackerIdle

NextMatch ==
    \/ \E img \in MatchImages, openOk \in BOOLEAN : UpdateMetrics(img, openOk)
    \/ \E given \in GivenStats, fail \in FailPoints : EvalJson(given, fail)

SpecMatch == InitMatch /\ [][NextMatch]_vars

\* JSON export and COCO evaluation: save_json and is_coco vary, the images vary in
\* predictions and file stem
InitJson ==
    /\ args \in [save_json : BOOLEAN, is_coco : BOOLEAN, overlap_mask : {FALSE}, single_cls : {FALSE}]
    /\ ValidatorStart
    /\ TrackerIdle

NextJson ==
    \/ \E img \in JsonImages, openOk \in BOOLEAN : UpdateMetrics(img, openOk)
    \/ \E given \in GivenStats, fail \in FailPoints : EvalJson(given, fail)

SpecJson == InitJson /\ [][NextJson]_vars


---------------------------------------------------------------------------
(* Tracker callbacks *)

\* outcomes of "import wandb": the SDK with __version__, a module without __version__
\* (the assert fails), ImportError, or an exception of another class
SdkOutcomes == {"ok", "no_version", "import_error", "other_error"}

\* lines 3-8: the module-level name wandb is the SDK (TRUE) or None (FALSE);
\* "except (ImportError, AssertionError)" lets any other exception leave the module
WandbName(outcome) == outcome = "ok"
ModuleLoads(outcome) == outcome # "other_error"

HookNames == {"on_train_start", "on_batch_end", "on_train_epoch_end", "on_val_end", "on_train_end"}

\* mutant of Callbacks: the table is filled whether or not the SDK was imported
CallbacksUnguarded(outcome) == IF ~ModuleLoads(outcome) THEN None ELSE Some(HookNames)

\* lines 45-50: callbacks = {...} if wandb else {}
Callbacks(outcome) ==
    IF ~ModuleLoads(outcome) THEN None
    ELSE IF WandbName(outcome) THEN Some(HookNames) ELSE Some({})

\* the trainer runs the callbacks registered under an event, and only those
Registered(name) ==
    /\ tpc = "training"
    /\ hooks < MaxHooks
    /\ table.some
    /\ name \in table.val

\* project=trainer.args.project if trainer.args.project != 'runs/train' else 'YOLOv8'
ProjectName(project) == IF project # "runs/train" THEN project ELSE "YOLOv8"

\* mutant of StartsRun: a run is started whether or not one is active
StartsRunAlways(r) == TRUE

\* the condition of line 14: "if not wandb.run"
StartsRun(r) == ~r.some

Invoked(name) ==
    /\ hooks' = hooks + 1
    /\ lastHook' = name

\* an AttributeError on wandb.run (None) leaves the hook
HookCrashes(name) ==
    /\ Invoked(name)
    /\ tpc' = "crashed"
    /\ UNCHANGED <<sdk, table, run, trainer, inits, calls, vvars>>

\* on_train_start; initOk = wandb.init returns a run (otherwise it raises)
OnTrainStart(initOk) ==
    /\ Registered("on_train_start")
    /\ Invoked("on_train_start")
    /\ IF StartsRun(run)
       THEN /\ inits' = inits + 1
            /\ calls' = calls + 1
            /\ run' = IF initOk
                      THEN Some([project |-> ProjectName(trainer.project), id |-> hooks + 1])
                      ELSE run
            /\ tpc' = IF initOk THEN tpc ELSE "crashed"
       ELSE UNCHANGED <<inits, calls, run, tpc>>
    /\ UNCHANGED <<sdk, table, trainer, vvars>>

\* on_batch_end
OnBatchEnd ==
    /\ Registered("on_batch_end")
    /\ IF run.some
       THEN /\ Invoked("on_batch_end")
            /\ calls' = calls + 1
            /\ UNCHANGED <<sdk, table, run, trainer, inits, tpc, vvars>>
       ELSE HookCrashes("on_batch_end")

\* on_val_end: one log, and a second one with the model info in epoch 0
OnValEnd ==
    /\ Registered("on_val_end")
    /\ IF run.some
       THEN /\ Invoked("on_val_end")
            /\ calls' = calls + (IF trainer.epoch = 0 THEN 2 ELSE 1)
            /\ UNCHANGED <<sdk, table, run, trainer, inits, tpc, vvars>>
       ELSE HookCrashes("on_val_end")

\* on_train_epoch_end: in epoch 1, one wandb.Image per train_batch*.jpg and one log
OnTrainEpochEnd ==
    /\ Registered("on_train_epoch_end")
    /\ IF trainer.epoch = 1 /\ ~run.some
       THEN HookCrashes("on_train_epoch_end")
       ELSE /\ Invoked("on_train_epoch_end")
            /\ calls' = calls + (IF trainer.epoch = 1 THEN trainer.batchJpgs + 1 ELSE 0)
            /\ UNCHANGED <<sdk, table, run, trainer, inits, tpc, vvars>>

\* on_train_end: wandb.Artifact, and add_file and log_artifact if trainer.best exists
OnTrainEnd ==
    /\ Registered("on_train_end")
    /\ IF run.some
       THEN /\ Invoked("on_train_end")
            /\ calls' = calls + (IF trainer.best THEN 3 ELSE 1)
            /\ UNCHANGED <<sdk, table, run, trainer, inits, tpc, vvars>>
       ELSE HookCrashes("on_train_end")

\* the trainer moves to the next epoch; a checkpoint may appear
NextEpoch(best) ==
    /\ tpc = "training"
    /\ trainer.epoch < MaxEpoch
    /\ trainer' = [trainer EXCEPT !.epoch = @ + 1, !.best = @ \/ best]
    /\ UNCHANGED <<sdk, table, run, inits, calls, hooks, lastHook, tpc, vvars>>

\* code outside this module finishes the active run (wandb.finish())
FinishRun ==
    /\ tpc = "training"
    /\ run.some
    /\ run' = None
    /\ inits' = 0
    /\ UNCHANGED <<sdk, table, trainer, calls, hooks, lastHook, tpc, vvars>>

InitTracker ==
    /\ sdk \in SdkOutcomes
    /\ table = Callbacks(sdk)
    /\ run = None
    /\ trainer \in [project : {"runs/train", "runs/pose"}, epoch : {0}, best : BOOLEAN,
                    batchJpgs : {0, 2}]
    /\ inits = 0 /\ calls = 0 /\ hooks = 0 /\ lastHook = "none"
    /\ tpc = IF ModuleLoads(sdk) THEN "training" ELSE "crashed"
    /\ args = [save_json |-> FALSE, is_coco |-> FALSE, overlap_mask |-> FALSE, single_cls |-> FALSE]
    /\ ValidatorStart

NextTracker ==
    \/ \E initOk \in BOOLEAN : OnTrainStart(initOk)
    \/ OnBatchEnd
    \/ OnValEnd
    \/ OnTrainEpochEnd
    \/ OnTrainEnd
    \/ \E best \in BOOLEAN : NextEpoch(best)
    \/ FinishRun

SpecTracker == InitTracker /\ [][NextTracker]_vars


---------------------------------------------------------------------------
(* Claims *)

\* the most recent iteration of update_metrics got past the debug log and appended
\* the six-component entry of line 182
LastAppended ==
    /\ last.some
    /\ last.val.openOk
    /\ Len(last.val.img.segs) > 0
    /\ Len(last.val.img.poses) > 0

LastEntry == stats[Len(stats)]

\* a step that is an iteration of update_metrics which got past the debug log
ImageStep == seen' = seen + 1 /\ last'.some /\ last'.val.openOk

\* C1: for an image with at least one label and one segmentation prediction, the
\* correct_masks component of its stats entry is the matching of predictions to labels
\* by the IoU of predicted and ground-truth masks (so a prediction whose mask overlaps
\* no mask of a label of its class is correct at no threshold).
C1_MasksDecidedByMaskIoU ==
    (LastAppended /\ Len(last.val.img.labels) > 0) =>
        LET img == last.val.img
            pcls == [p \in DOMAIN img.segs |-> PredCls(args, img.segs[p])]
            tcls == [l \in DOMAIN img.labels |-> img.labels[l].cls]
        IN  LastEntry[2] = MatchPredictions(pcls, tcls, MaskIoUMatrix(GtMasks(img), PredMasks(img)))

\* C2: for an image with at least one label and one prediction, the correct_kpts
\* component of its stats entry is the matching of predictions to labels by the OKS
\* similarity of predicted and ground-truth keypoints (area = 0.53 x label box area).
C2_KptsDecidedByOKS ==
    (LastAppended /\ Len(last.val.img.labels) > 0) =>
        LET img == last.val.img
            pcls == [p \in DOMAIN img.poses |-> PredCls(args, img.poses[p])]
            tcls == [l \in DOMAIN img.labels |-> img.labels[l].cls]
        IN  LastEntry[3] = MatchPredictions(pcls, tcls, KptIoUMatrix(LabelsN(img), TKpts(img), PredKpts(img)))

\* C3: a call of pred_to_json with N prediction rows appends exactly N entries to
\* jdict in row order and keeps the earlier entries; the N entries carry one image_id,
\* an integer for a numeric stem and the stem string otherwise; entry i has
\* category_id = class_map[class of row i] and segmentation = the RLE of mask i.
C3_PredToJsonAppendsN ==
    [][(seen' = seen + 1 /\ last'.some /\ last'.val.json) =>
        LET img == last'.val.img
            N == Len(img.segs)
            old == Len(jdict)
        IN  /\ Len(jdict') = old + N
            /\ SubSeq(jdict', 1, old) = jdict
            /\ \A i \in 1..N :
                LET e == jdict'[old + i]
                IN  /\ e.image_id = jdict'[old + 1].image_id
                    /\ IF IsNumeric(img.stem)
                       THEN DOMAIN e.image_id = {"int"}
                       ELSE DOMAIN e.image_id = {"str"} /\ e.image_id.str = img.stem
                    /\ e.category_id = ClassMap(args.is_coco, img.segs[i].cls)
                    /\ e.segmentation =
                         SingleEncode(ScaleImage(img.segs[i].mask, img.ratio),
                                      Cardinality(Pixels) * img.ratio)]_vars

\* C4: eval_json returns the stats mapping it was given, unchanged, and runs no
\* COCOeval, unless save_json, is_coco and a non-empty jdict all hold.
C4_EvalOptional ==
    evalIn.some =>
        /\ ~(args.save_json /\ args.is_coco /\ jdict # <<>>) =>
              /\ pc = "evaluated"
              /\ evalOut.some
              /\ evalOut.val = evalIn.val
              /\ evalRuns = <<>>
              /\ ~warned
        /\ evalRuns # <<>> => (args.save_json /\ args.is_coco /\ jdict # <<>>)

\* C4 witness: eval_json was called with save_json on and predictions exported on a
\* dataset that is not COCO, and returned the given mapping
C4_Witness ==
    /\ evalIn.some /\ pc = "evaluated"
    /\ args.save_json /\ ~args.is_coco /\ jdict # <<>>
    /\ evalOut.val = evalIn.val

\* the positions (1-based) of the mAP50 and mAP50-95 keys of the three blocks
MapKeyPositions == {3, 4, 7, 8, 11, 12}

\* C7: when save_json, is_coco and a non-empty jdict hold and a step of the pycocotools
\* evaluation fails, eval_json does not raise: it logs a warning and returns the stats
\* mapping (the same keys, the precision and recall entries as given).
C7_EvalFailureSwallowed ==
    (evalIn.some /\ args.save_json /\ args.is_coco /\ jdict # <<>> /\ evalFail # "none") =>
        /\ pc = "evaluated"
        /\ warned
        /\ evalOut.some
        /\ DOMAIN evalOut.val = DOMAIN evalIn.val
        /\ \A k \in DOMAIN MetricKeys :
              k \notin MapKeyPositions => evalOut.val[MetricKeys[k]] = evalIn.val[MetricKeys[k]]

\* C7 witness: the segm run failed after the bbox run had succeeded, and eval_json returned
C7_Witness ==
    /\ evalIn.some /\ evalFail = "segm" /\ pc = "evaluated" /\ warned
    /\ evalRuns = <<"bbox", "segm">>
    /\ evalOut.val["B_mAP50"] = 51

\* C6: every image grows seen by one; an image with neither labels nor segmentation
\* predictions appends nothing to stats and every other image appends exactly one entry.
C6_OneEntryPerNonEmptyImage ==
    [][ImageStep =>
        LET img == last'.val.img
        IN  Len(stats') = Len(stats) +
                (IF Len(img.labels) > 0 \/ Len(img.segs) > 0 THEN 1 ELSE 0)]_vars

\* C9: every entry of stats has six components, and an image that has labels but no
\* segmentation predictions appends such an entry.
C9_SixComponents ==
    [][/\ \A i \in DOMAIN stats' : Len(stats'[i]) = 6
       /\ (ImageStep /\ Len(last'.val.img.labels) > 0 /\ Len(last'.val.img.segs) = 0) =>
             /\ Len(stats') = Len(stats) + 1
             /\ Len(stats'[Len(stats')]) = 6]_vars

\* C5 as stated: the table holds exactly the five hooks when the SDK is importable and
\* has __version__, and is empty in every other case; without the SDK no hook is
\* invoked and no tracker call is made.
C5_TableFiveOrEmpty ==
    /\ sdk = "ok" => (table.some /\ table.val = HookNames)
    /\ sdk # "ok" => (table.some /\ table.val = {} /\ hooks = 0 /\ calls = 0)

\* C5 amended: the table holds exactly the five hooks when the SDK is importable and has
\* __version__; it is empty when the import raises ImportError or the module lacks
\* __version__; when the import raises an exception of another class the module fails
\* to load and exports no table. In every case but the first no hook is invoked and no
\* tracker call is made.
C5_TableFiveEmptyOrNoModule ==
    /\ sdk = "ok" => (table.some /\ table.val = HookNames)
    /\ sdk \in {"import_error", "no_version"} => (table.some /\ table.val = {})
    /\ sdk = "other_error" => ~table.some
    /\ sdk # "ok" => (hooks = 0 /\ calls = 0 /\ ~run.some)

\* C5 witness: with the SDK present all five hooks are registered and the trainer has
\* invoked on_train_end, which called the tracker
C5_Witness ==
    /\ sdk = "ok" /\ table.val = HookNames
    /\ lastHook = "on_train_end" /\ calls > 0 /\ tpc = "training"

\* C8: while no run is finished wandb.init is executed at most once; on_train_start
\* invoked while a run is active leaves the run in place and calls nothing; a run that
\* on_train_start starts has project 'YOLOv8' if the trainer's project is 'runs/train'
\* and the trainer's project otherwise.
C8_InitAtMostOnce ==
    [][/\ inits' <= 1
       /\ (hooks' = hooks + 1 /\ lastHook' = "on_train_start" /\ run.some) =>
             (run' = run /\ inits' = inits /\ calls' = calls)
       /\ (hooks' = hooks + 1 /\ lastHook' = "on_train_start" /\ ~run.some /\ run'.some) =>
             /\ inits' = inits + 1
             /\ run'.val.project =
                  (IF trainer.project = "runs/train" THEN "YOLOv8" ELSE trainer.project)]_vars

\* C8 witness: the latest hook was on_train_start and the active run was started by an
\* earlier hook
C8_Witness ==
    /\ lastHook = "on_train_start" /\ run.some /\ run.val.id < hooks /\ inits = 1

=============================================================================
